---- MODULE Spec2Model ----
(***************************************************************************)
(* Model of src/app.py: a Streamlit script that loads data/data.csv once   *)
(* (st.cache_data), derives the decade column, and on every script run     *)
(* recomputes four artifacts from the widget selections: the yearly        *)
(* feature means, the min-max normalised decade fingerprint, the top-5     *)
(* songs of the focus decade and the scatter sample.                       *)
(*                                                                         *)
(* Numbers.  A feature value of the file is a decimal with three places,   *)
(* held as an integer count of thousandths.  The yearly means (line 46)    *)
(* and the fingerprint (lines 84-87) are computed as the code computes     *)
(* them, in float64: a float is [nan, m, e], the value m * 2^e with m a    *)
(* 53-bit mantissa held as limbs, and every operation rounds to nearest,   *)
(* ties to even.                                                           *)
(* Text.  A string is a sequence of one-character strings.                 *)
(***************************************************************************)
EXTENDS Integers, Sequences, FiniteSets, TLC

VARIABLES
    source,                \* data/data.csv: [status, columns, rows]
    cache,                 \* st.cache_data entry of load_data: <<>> or <<table>>
    build,                 \* the numpy build: its argsort kernel
    stage,                 \* how far the last script run got
    error,                 \* the exception that stopped the last run
    data,                  \* line 24
    selected_decades,      \* line 28
    filtered_data,         \* line 34
    yearly_avg_features,   \* line 46
    selected_decade_radar, \* line 78
    radar_values,          \* line 87
    top_songs,             \* line 111-112
    x_axis,                \* line 124
    y_axis,                \* line 125
    scatter_data           \* line 126

vars == <<source, cache, build, stage, error, data,
          selected_decades, filtered_data, yearly_avg_features,
          selected_decade_radar, radar_values, top_songs, x_axis, y_axis,
          scatter_data>>

(***************************************************************************)
(* Bounds of the model.                                                    *)
(***************************************************************************)
MaxRows == 2        \* rows of the CSV, full session
ViewRows == 4       \* rows of the CSV, decade and focus interactions
SchemaRows == 2     \* rows of the CSV, files that lack a column
MaxStrLen == 3      \* characters of an artists string
MaxLevel == 1       \* feature levels of the fingerprint inputs
TopRows == 18       \* rows of one decade in the sorting inputs
TieRows == 2        \* rows of the small tables in the sorting inputs
MaxExtra == 2       \* rows beyond the sample size in the sampling family
ScatterRows == 3    \* rows of the small tables in the sampling family

(***************************************************************************)
(* Program constants.                                                      *)
(***************************************************************************)
FirstDecade == 1960      \* line 21
TopN == 5                \* line 111, head(5)
SampleN == 2000          \* line 126, sample(n=2000) and len(...) > 2000
SampleSeed == 42         \* line 126, random_state=42
SMALL_QUICKSORT == 16    \* numpy's argsort(kind='quicksort') cut-over

TrendFeatures == <<"danceability", "energy", "valence", "acousticness">>
RadarFeatures ==
    <<"danceability", "energy", "valence", "acousticness", "speechiness">>
feature_options == <<"danceability", "energy", "valence", "acousticness",
                     "loudness", "tempo", "popularity">>
AllColumns == {"name", "artists", "year", "popularity", "danceability",
               "energy", "valence", "acousticness", "speechiness",
               "loudness", "tempo"}

NoDecade == -1    \* None, what st.selectbox returns for empty options

(***************************************************************************)
(* Generic helpers.                                                        *)
(***************************************************************************)
Range(s) == {s[i] : i \in 1..Len(s)}

Reverse(s) == [i \in 1..Len(s) |-> s[Len(s) + 1 - i]]

MinOf(S) == CHOOSE m \in S : \A x \in S : m <= x
MaxOf(S) == CHOOSE m \in S : \A x \in S : m >= x

RECURSIVE SortedAsc(_)
\* sorted(set of integers)
SortedAsc(S) ==
    IF S = {} THEN <<>>
    ELSE LET m == MinOf(S) IN <<m>> \o SortedAsc(S \ {m})

(***************************************************************************)
(* float64 arithmetic, what lines 46 and 84-87 compute with.  A natural    *)
(* number is                                                               *)
(* a sequence of limbs of LimbBits bits, the least significant first and   *)
(* the last one not 0; a float that is finite and not negative is          *)
(* [nan |-> FALSE, m, e], the value m * 2^e with m = 0 (and e = 0) or      *)
(* 2^52 <= m < 2^53.  The fingerprint needs no other float: the features   *)
(* are not negative and the normalisation subtracts the smaller product    *)
(* from the larger.  The compensated sum of line 46 has differences of     *)
(* either sign: there a float goes with its sign, [neg, abs].              *)
(***************************************************************************)
LimbBits == 15
MantBits == 53           \* the mantissa of float64, hidden bit included
Thousandths == 1000      \* a feature value k stands for the decimal k / 1000

Base == 2^LimbBits

RECURSIVE BigTrim(_)
BigTrim(a) ==
    IF a # <<>> /\ a[Len(a)] = 0 THEN BigTrim(SubSeq(a, 1, Len(a) - 1)) ELSE a

RECURSIVE BigOfInt(_)
BigOfInt(k) == IF k = 0 THEN <<>> ELSE <<k % Base>> \o BigOfInt(k \div Base)

RECURSIVE BigAddFrom(_, _, _, _)
\* limbs i and up of a + b, c the carry in
BigAddFrom(a, b, i, c) ==
    IF i > Len(a) /\ i > Len(b) THEN (IF c = 0 THEN <<>> ELSE <<c>>)
    ELSE LET s == (IF i <= Len(a) THEN a[i] ELSE 0)
                  + (IF i <= Len(b) THEN b[i] ELSE 0) + c
         IN <<s % Base>> \o BigAddFrom(a, b, i + 1, s \div Base)

BigAdd(a, b) == BigAddFrom(a, b, 1, 0)

RECURSIVE BigSubFrom(_, _, _, _)
\* limbs i and up of a - b, c the borrow in
BigSubFrom(a, b, i, c) ==
    IF i > Len(a) THEN <<>>
    ELSE LET s == a[i] - (IF i <= Len(b) THEN b[i] ELSE 0) - c
         IN <<s % Base>> \o BigSubFrom(a, b, i + 1, IF s < 0 THEN 1 ELSE 0)

\* a - b for a >= b
BigSub(a, b) == BigTrim(BigSubFrom(a, b, 1, 0))

RECURSIVE BigLessFrom(_, _, _)
BigLessFrom(a, b, i) ==
    IF i = 0 THEN FALSE
    ELSE IF a[i] # b[i] THEN a[i] < b[i]
    ELSE BigLessFrom(a, b, i - 1)

BigLess(a, b) ==
    IF Len(a) # Len(b) THEN Len(a) < Len(b) ELSE BigLessFrom(a, b, Len(a))

RECURSIVE BigMulSmallFrom(_, _, _, _)
BigMulSmallFrom(a, k, i, c) ==
    IF i > Len(a) THEN (IF c = 0 THEN <<>> ELSE <<c>>)
    ELSE LET s == a[i] * k + c
         IN <<s % Base>> \o BigMulSmallFrom(a, k, i + 1, s \div Base)

\* a * k for 0 <= k < Base
BigMulSmall(a, k) == IF k = 0 THEN <<>> ELSE BigMulSmallFrom(a, k, 1, 0)

RECURSIVE BigMulFrom(_, _, _)
BigMulFrom(a, b, i) ==
    IF i > Len(b) THEN <<>>
    ELSE BigAdd(BigMulSmall(a, b[i]),
                IF i = Len(b) THEN <<>> ELSE <<0>> \o BigMulFrom(a, b, i + 1))

BigMul(a, b) == BigTrim(BigMulFrom(a, b, 1))

RECURSIVE BigDivSmallFrom(_, _, _, _)
\* limbs i down to 1 of a divided by k, r the remainder so far: <<q, r>>
BigDivSmallFrom(a, k, i, r) ==
    IF i = 0 THEN <<<<>>, r>>
    ELSE LET cur == r * Base + a[i]
             rest == BigDivSmallFrom(a, k, i - 1, cur % k)
         IN <<Append(rest[1], cur \div k), rest[2]>>

\* <<a div k, a mod k>> for 0 < k < Base
BigDivSmall(a, k) ==
    LET res == BigDivSmallFrom(a, k, Len(a), 0) IN <<BigTrim(res[1]), res[2]>>

\* a * 2^n
BigShl(a, n) ==
    IF a = <<>> THEN <<>>
    ELSE [i \in 1..(n \div LimbBits) |-> 0] \o BigMulSmall(a, 2^(n % LimbBits))

\* floor(a / 2^n)
BigShr(a, n) ==
    IF Len(a) <= n \div LimbBits THEN <<>>
    ELSE BigDivSmall(SubSeq(a, (n \div LimbBits) + 1, Len(a)),
                     2^(n % LimbBits))[1]

RECURSIVE SmallBitLen(_)
SmallBitLen(k) == IF k = 0 THEN 0 ELSE 1 + SmallBitLen(k \div 2)

BigBitLen(a) ==
    IF a = <<>> THEN 0
    ELSE LimbBits * (Len(a) - 1) + SmallBitLen(a[Len(a)])

BigOdd(a) == a # <<>> /\ a[1] % 2 = 1

\* the limb i of a, 0 above its length
Limb(a, i) == IF i <= Len(a) THEN a[i] ELSE 0

\* the estimate of a quotient digit from the top two limbs of the remainder
\* and the top limb of the divisor; it is not below the digit
Estimate(r, b) ==
    IF (Limb(r, Len(b) + 1) * Base + Limb(r, Len(b))) \div b[Len(b)] >= Base
    THEN Base - 1
    ELSE (Limb(r, Len(b) + 1) * Base + Limb(r, Len(b))) \div b[Len(b)]

RECURSIVE Corrected(_, _, _)
\* the digit r div b from the estimate k: <<digit, r mod b>>
Corrected(r, b, k) ==
    IF BigLess(r, BigMulSmall(b, k)) THEN Corrected(r, b, k - 1)
    ELSE <<k, BigSub(r, BigMulSmall(b, k))>>

\* the digit dr[1] put under the quotient q
Digit(q, dr) == <<<<dr[1]>> \o q, dr[2]>>

RECURSIVE BigLongDiv(_, _, _, _)
\* long division in base 2^LimbBits: the limbs i down to 1 of a brought into
\* the quotient and remainder qr
BigLongDiv(a, b, i, qr) ==
    IF i = 0 THEN qr
    ELSE BigLongDiv(a, b, i - 1,
                    Digit(qr[1], Corrected(BigTrim(<<a[i]>> \o qr[2]), b,
                                           Estimate(<<a[i]>> \o qr[2], b))))

\* a and b shifted by s bits, which sets the top bit of the top limb of b
BigDivShifted(a, b, s) ==
    BigLongDiv(BigShl(a, s), BigShl(b, s), Len(BigShl(a, s)), <<<<>>, <<>>>>)

\* the quotient trimmed and the remainder shifted back
BigDivResult(qr, s) == <<BigTrim(qr[1]), BigShr(qr[2], s)>>

\* <<a div b, a mod b>> for b > 0
BigDivMod(a, b) ==
    IF Len(b) = 1
    THEN LET res == BigDivSmall(a, b[1])
         IN <<res[1], IF res[2] = 0 THEN <<>> ELSE <<res[2]>>>>
    ELSE BigDivResult(BigDivShifted(a, b, LimbBits - SmallBitLen(b[Len(b)])),
                      LimbBits - SmallBitLen(b[Len(b)]))

NaN == [nan |-> TRUE, m |-> <<>>, e |-> 0]
Zero == [nan |-> FALSE, m |-> <<>>, e |-> 0]

\* round to nearest, ties to even: q with the bits rem dropped rounds up when
\* rem is more than half, or half and q is odd
RoundsUp(q, rem, half) == BigLess(half, rem) \/ (rem = half /\ BigOdd(q))

\* the float of the mantissa q, which rounding up has made 2^53 at most
Carried(q, e) ==
    IF BigBitLen(q) > MantBits
    THEN [nan |-> FALSE, m |-> BigShr(q, 1), e |-> e + 1]
    ELSE [nan |-> FALSE, m |-> q, e |-> e]

\* n of more than 53 bits, q its top 53 bits and sh the number of the others
RoundedOff(n, e, q, sh) ==
    Carried(IF RoundsUp(q, BigSub(n, BigShl(q, sh)), BigShl(<<1>>, sh - 1))
            THEN BigAdd(q, <<1>>) ELSE q,
            e + sh)

\* n of len bits
Rounded(n, e, len) ==
    IF len = 0 THEN Zero
    ELSE IF len <= MantBits
    THEN [nan |-> FALSE, m |-> BigShl(n, MantBits - len),
          e |-> e - (MantBits - len)]
    ELSE RoundedOff(n, e, BigShr(n, len - MantBits), len - MantBits)

\* the float64 nearest to n * 2^e, ties to even
Round(n, e) == Rounded(n, e, BigBitLen(n))

\* float(k) for an integer k >= 0
FloatOfInt(k) == Round(BigOfInt(k), 0)

One == FloatOfInt(1)

\* a + b for a.e >= b.e, neither 0
Aligned(a, b) == Round(BigAdd(BigShl(a.m, a.e - b.e), b.m), b.e)

\* a + b
FAdd(a, b) ==
    IF a.nan \/ b.nan THEN NaN
    ELSE IF a.m = <<>> THEN b
    ELSE IF b.m = <<>> THEN a
    ELSE IF a.e >= b.e THEN Aligned(a, b)
    ELSE Aligned(b, a)

\* a < b; a comparison with NaN is false
FLess(a, b) ==
    IF a.nan \/ b.nan THEN FALSE
    ELSE IF a.m = <<>> THEN b.m # <<>>
    ELSE IF b.m = <<>> THEN FALSE
    ELSE IF a.e # b.e THEN a.e < b.e
    ELSE BigLess(a.m, b.m)

\* a - b for a >= b
FSub(a, b) ==
    IF a.nan \/ b.nan THEN NaN
    ELSE IF b.m = <<>> THEN a
    ELSE Round(BigSub(BigShl(a.m, a.e - b.e), b.m), b.e)

\* a * b
FMul(a, b) ==
    IF a.nan \/ b.nan THEN NaN
    ELSE Round(BigMul(a.m, b.m), a.e + b.e)

RECURSIVE TrailingZeros(_)
TrailingZeros(k) == IF k % 2 = 1 THEN 0 ELSE 1 + TrailingZeros(k \div 2)

RECURSIVE OddPart(_, _)
\* a mantissa without its trailing zero bits: <<odd part, bits dropped>>
OddPart(m, dropped) ==
    IF m[1] = 0 THEN OddPart(Tail(m), dropped + LimbBits)
    ELSE <<BigShr(m, TrailingZeros(m[1])), dropped + TrailingZeros(m[1])>>

\* q * 2^e with one more bit that says whether the remainder r is not 0
RoundQuotient(qr, e) ==
    Round(BigAdd(BigMulSmall(qr[1], 2), IF qr[2] = <<>> THEN <<>> ELSE <<1>>),
          e - 1)

\* the quotient of a by the odd part d of b, to MantBits + 3 bits
DivideBy(a, b, d) ==
    RoundQuotient(BigDivMod(BigShl(a.m, MantBits + 3), d[1]),
                  a.e - b.e - d[2] - (MantBits + 3))

\* a / b; x / 0 is NaN for x = 0 (the only division by 0 the script makes)
FDiv(a, b) ==
    IF a.nan \/ b.nan \/ b.m = <<>> THEN NaN
    ELSE IF a.m = <<>> THEN Zero
    ELSE DivideBy(a, b, OddPart(b.m, 0))

\* the float64 of the decimal k / 1000, for every value a feature takes
Float64 == [k \in 0..Thousandths |-> FDiv(FloatOfInt(k), FloatOfInt(Thousandths))]

\* the column col of table t as float64 values
FloatColumn(t, col) == [i \in 1..Len(t) |-> Float64[t[i][col]]]

\* the float f or -f; a zero or a NaN is kept without sign
Signed(neg, f) == [neg |-> neg /\ ~f.nan /\ f.m # <<>>, abs |-> f]

SignedZero == Signed(FALSE, Zero)

\* x + y: the magnitudes added, or the smaller taken from the larger, which
\* rounds as the sum does
SAdd(x, y) ==
    IF x.neg = y.neg THEN Signed(x.neg, FAdd(x.abs, y.abs))
    ELSE IF FLess(x.abs, y.abs) THEN Signed(y.neg, FSub(y.abs, x.abs))
    ELSE Signed(x.neg, FSub(x.abs, y.abs))

\* x - y
SSub(x, y) == SAdd(x, Signed(~y.neg, y.abs))

\* pandas group_mean: compensation = t - sumx - y, reset to 0 when it is NaN;
\* sumx = t
Compensated(sumx, y, c) ==
    IF c.abs.nan THEN <<SAdd(sumx, y), SignedZero>> ELSE <<SAdd(sumx, y), c>>

\* pandas group_mean, one value val of a group with s = <<sumx,
\* compensation>>: y = val - compensation; t = sumx + y
KahanAdded(sumx, y) == Compensated(sumx, y, SSub(SSub(SAdd(sumx, y), sumx), y))

KahanStep(s, val) == KahanAdded(s[1], SSub(Signed(FALSE, val), s[2]))

RECURSIVE KahanRange(_, _, _, _)
\* the loop goes on from the sums s
KahanResume(a, s, lo, hi) ==
    IF s[1].neg \in BOOLEAN THEN KahanRange(a, s, lo, hi) ELSE s

\* pandas group_mean, the loop over the values lo..hi of a group, in row
\* order
KahanRange(a, s, lo, hi) ==
    IF lo = hi THEN KahanStep(s, a[lo])
    ELSE KahanResume(a, KahanRange(a, s, lo, (lo + hi) \div 2),
                     ((lo + hi) \div 2) + 1, hi)

\* sumx / count
MeanOfSum(sumx, count) == Signed(sumx.neg, FDiv(sumx.abs, FloatOfInt(count)))

\* line 46, the mean of a float64 column of a group (pandas group_mean): the
\* compensated sum over the count, NaN for a group without a value
ColumnMean(t, col) ==
    IF Len(t) = 0 THEN Signed(FALSE, NaN)
    ELSE MeanOfSum(KahanRange(FloatColumn(t, col),
                              <<SignedZero, SignedZero>>, 1, Len(t))[1],
                   Len(t))

RECURSIVE AddUp(_, _, _, _)
\* res += a[i] for i from lo to hi
AddUp(a, lo, hi, res) ==
    IF lo > hi THEN res ELSE AddUp(a, lo + 1, hi, FAdd(res, a[lo]))

RECURSIVE AddBlocks(_, _, _, _)
\* numpy pairwise sum, the unrolled loop: r[j] += a[i + j] for the blocks of
\* 8 from i up to but not including stop
AddBlocks(a, i, stop, r) ==
    IF i >= stop THEN r
    ELSE AddBlocks(a, i + 8, stop, [j \in 1..8 |-> FAdd(r[j], a[i + j - 1])])

\* the sums of the pairs of r
Pairs(r) == [j \in 1..(Len(r) \div 2) |-> FAdd(r[2 * j - 1], r[2 * j])]

\* the eight partial sums added in pairs:
\* ((r0 + r1) + (r2 + r3)) + ((r4 + r5) + (r6 + r7))
Combine(r) == Pairs(Pairs(Pairs(r)))[1]

RECURSIVE PairwiseSum(_, _, _)
\* numpy's sum of the n float64 values of a from position lo: below 8 one
\* after the other, up to 128 in eight partial sums, above that in two halves
PairwiseSum(a, lo, n) ==
    IF n < 8 THEN AddUp(a, lo, lo + n - 1, Zero)
    ELSE IF n <= 128
    THEN AddUp(a, lo + n - (n % 8), lo + n - 1,
               Combine(AddBlocks(a, lo + 8, lo + n - (n % 8),
                                 [j \in 1..8 |-> a[lo + j - 1]])))
    ELSE FAdd(PairwiseSum(a, lo, (n \div 2) - ((n \div 2) % 8)),
              PairwiseSum(a, lo + (n \div 2) - ((n \div 2) % 8),
                          n - ((n \div 2) - ((n \div 2) % 8))))

\* gives 0 for no rows
FeatureMean_ZeroIfEmpty(t, col) ==
    IF Len(t) = 0 THEN Zero
    ELSE FDiv(PairwiseSum(FloatColumn(t, col), 1, Len(t)), FloatOfInt(Len(t)))

\* pandas mean of a float64 column: the sum over the count, NaN for no rows
FeatureMean(t, col) ==
    FDiv(PairwiseSum(FloatColumn(t, col), 1, Len(t)), FloatOfInt(Len(t)))

(***************************************************************************)
(* Loader, lines 13-24.                                                    *)
(***************************************************************************)
\* rounds to the nearest decade instead of down
DecadeOf_Rounded(year) == ((year + 5) \div 10) * 10

\* line 20: (df['year'] // 10) * 10, floor division
DecadeOf(year) == (year \div 10) * 10

\* pd.read_csv gives the rows a RangeIndex: row i of the file has label i - 1
ReadCsv(rows) == [i \in 1..Len(rows) |-> rows[i] @@ [idx |-> i - 1]]

\* lines 20-21 on a frame that has the year column
DeriveDecade(df) ==
    LET withDecade == [i \in 1..Len(df) |->
                           df[i] @@ [decade |-> DecadeOf(df[i].year)]]
    IN SelectSeq(withDecade, LAMBDA r : r.decade >= FirstDecade)

\* takes a file without the year column for a file without rows
load_data_NoYear(src) ==
    IF src.status = "missing"
    THEN [err |-> "FileNotFoundError", table |-> <<>>]
    ELSE IF src.status = "unreadable"
    THEN [err |-> "PermissionError", table |-> <<>>]
    ELSE IF "year" \notin src.columns
    THEN [err |-> "none", table |-> <<>>]
    ELSE [err |-> "none", table |-> DeriveDecade(ReadCsv(src.rows))]

\* lines 14-22: the outcome of one uncached call of load_data: read_csv
\* raises on a file it cannot open, df['year'] on a frame without the column
load_data(src) ==
    IF src.status = "missing"
    THEN [err |-> "FileNotFoundError", table |-> <<>>]
    ELSE IF src.status = "unreadable"
    THEN [err |-> "PermissionError", table |-> <<>>]
    ELSE IF "year" \notin src.columns
    THEN [err |-> "KeyError", table |-> <<>>]
    ELSE [err |-> "none", table |-> DeriveDecade(ReadCsv(src.rows))]

\* line 13, st.cache_data: the cached table when there is one (a failed call
\* caches nothing), else the call
CachedLoad(c, src) ==
    IF c # <<>> THEN [err |-> "none", table |-> c[1]] ELSE load_data(src)

(***************************************************************************)
(* Filter, lines 28-34.                                                    *)
(***************************************************************************)
\* df['decade'].unique() as a set
DecadesOf(t) == {t[i].decade : i \in 1..Len(t)}

\* treats the empty selection as "no filter"
FilterDecades_EmptyIsAll(t, decades) ==
    IF decades = {} THEN t ELSE SelectSeq(t, LAMBDA r : r.decade \in decades)

\* line 34: data[data['decade'].isin(selected_decades)]
FilterDecades(t, decades) == SelectSeq(t, LAMBDA r : r.decade \in decades)

(***************************************************************************)
(* Trend aggregator, line 46.                                              *)
(***************************************************************************)
YearsOf(t) == {t[i].year : i \in 1..Len(t)}

\* the row of the group g of year y: the means of the four columns
GroupMeans(g, y) ==
    [year |-> y,
     danceability |-> ColumnMean(g, "danceability"),
     energy |-> ColumnMean(g, "energy"),
     valence |-> ColumnMean(g, "valence"),
     acousticness |-> ColumnMean(g, "acousticness")]

\* averages the whole table instead of the group
YearRow_Ungrouped(t, y) == GroupMeans(t, y)

\* one group of groupby('year')[[...]].mean(): the rows of year y in order
YearRow(t, y) == GroupMeans(SelectSeq(t, LAMBDA r : r.year = y), y)

\* groupby sorts the group keys; reset_index makes year a column again
YearlyMeans(t) ==
    LET years == SortedAsc(YearsOf(t))
    IN [k \in 1..Len(years) |-> YearRow(t, years[k])]

(***************************************************************************)
(* Fingerprint aggregator, lines 78-87.                                    *)
(***************************************************************************)
\* lines 78-82: the selectbox default, the last of the sorted options; None
\* when there is no option
DefaultFocus(t) == IF DecadesOf(t) = {} THEN NoDecade ELSE MaxOf(DecadesOf(t))

\* line 84: the rows of the focus decade (no row equals None)
FocusSlice(t, focus) == SelectSeq(t, LAMBDA r : r.decade = focus)

\* line 84: the five means, in the order of the column list
MeansOf(s) == <<>> \o [k \in 1..5 |-> FeatureMean(s, RadarFeatures[k])]

DecadeFeatures(t, focus) == MeansOf(FocusSlice(t, focus))

RECURSIVE NanMin(_, _)
\* np.nanmin of X[1..k]: the least value that is not NaN, NaN if none
NanMin(X, k) ==
    IF k = 1 THEN X[1]
    ELSE IF X[k].nan \/ FLess(NanMin(X, k - 1), X[k]) THEN NanMin(X, k - 1)
    ELSE X[k]

RECURSIVE NanMax(_, _)
\* np.nanmax of X[1..k]
NanMax(X, k) ==
    IF k = 1 THEN X[1]
    ELSE IF X[k].nan \/ FLess(X[k], NanMax(X, k - 1)) THEN NanMax(X, k - 1)
    ELSE X[k]

\* 10 * np.finfo(float64).eps
TenEps == Round(BigOfInt(10), 1 - MantBits)

\* sklearn _handle_zeros_in_scale: a range below 10 * eps counts as constant
\* and is replaced by 1
HandleZeros(range) == IF FLess(range, TenEps) THEN One ELSE range

\* MinMaxScaler.transform: X * scale_ + min_, where min_ = 0 - data_min *
\* scale_ is the negative of shift
Transform(X, scale, shift) ==
    <<>> \o [k \in 1..Len(X) |-> FSub(FMul(X[k], scale), shift)]

\* MinMaxScaler.partial_fit: scale_ = (1 - 0) / data_range
ScaleOf(range) == FDiv(One, HandleZeros(range))

\* fit with data_min = lo and scale_ = scale, then transform
Fitted(X, lo, scale) == Transform(X, scale, FMul(lo, scale))

\* lines 86-87, MinMaxScaler().fit_transform on the five means as one column
\* (clip is off), data_range = data_max - data_min.  NaN in gives NaN out.
MinMaxScale(X) ==
    Fitted(X, NanMin(X, Len(X)),
           ScaleOf(FSub(NanMax(X, Len(X)), NanMin(X, Len(X)))))

(***************************************************************************)
(* Top-N selector, lines 111-112.                                          *)
(***************************************************************************)
Swap(t, i, j) == [t EXCEPT ![i] = t[j], ![j] = t[i]]

RECURSIVE InsertLoop(_, _, _, _, _)
\* numpy aquicksort, the inner loop of its insertion sort: shift right while
\* the key is less than the element on the left
InsertLoop(v, t, pj, pl, vi) ==
    IF pj > pl /\ v[vi] < v[t[pj - 1]]
    THEN InsertLoop(v, [t EXCEPT ![pj] = t[pj - 1]], pj - 1, pl, vi)
    ELSE [t EXCEPT ![pj] = vi]

RECURSIVE InsertionSort(_, _, _, _, _)
InsertionSort(v, t, pi, pl, pr) ==
    IF pi > pr THEN t
    ELSE InsertionSort(v, InsertLoop(v, t, pi, pl, t[pi]), pi + 1, pl, pr)

\* do ++pi while v[t[pi]] < vp: the first place after pi whose value is
\* not less than vp (the pivot at hi stops the scan)
ScanUp(v, t, pi, vp, hi) ==
    CHOOSE i \in (pi + 1)..hi :
        /\ ~(v[t[i]] < vp)
        /\ \A k \in (pi + 1)..(i - 1) : v[t[k]] < vp

\* do --pj while vp < v[t[pj]]: the last place before pj whose value is
\* not greater than vp (the element at lo stops the scan)
ScanDown(v, t, pj, vp, lo) ==
    CHOOSE j \in lo..(pj - 1) :
        /\ ~(vp < v[t[j]])
        /\ \A k \in (j + 1)..(pj - 1) : vp < v[t[k]]

RECURSIVE PartitionLoop(_, _, _, _, _, _, _)
\* the scans met, or the two elements are swapped and the scans go on
Scanned(v, t, ni, nj, vp, lo, hi) ==
    IF ni >= nj THEN <<t, ni>>
    ELSE PartitionLoop(v, Swap(t, ni, nj), ni, nj, vp, lo, hi)

\* numpy aquicksort, the partition loop around the pivot value vp, which
\* sits at hi: <<t, pi>>
PartitionLoop(v, t, pi, pj, vp, lo, hi) ==
    Scanned(v, t, ScanUp(v, t, pi, vp, hi), ScanDown(v, t, pj, vp, lo),
            vp, lo, hi)

\* if (v[a] < v[b]) swap
SwapIfLess(v, t, a, b) == IF v[t[a]] < v[t[b]] THEN Swap(t, a, b) ELSE t

\* the pivot moved to its place after the scan
PivotPlaced(res, pr) == <<Swap(res[1], res[2], pr - 1), res[2]>>

\* the pivot moved next to the right end, then the scan
PivotScan(v, t, pl, pm, pr) ==
    PivotPlaced(PartitionLoop(v, Swap(t, pm, pr - 1), pl, pr - 1, v[t[pm]],
                              pl, pr - 1), pr)

\* numpy aquicksort, median of three then the scan: <<t, pi>>
Partition(v, t, pl, pr) ==
    PivotScan(v,
              SwapIfLess(v, SwapIfLess(v, SwapIfLess(v, t, pl + ((pr - pl) \div 2), pl),
                                      pr, pl + ((pr - pl) \div 2)),
                         pl + ((pr - pl) \div 2), pl),
              pl, pl + ((pr - pl) \div 2), pr)

RECURSIVE SiftDown(_, _, _, _, _, _, _)
\* numpy aheapsort, the second half of a pass of its inner loop: the larger
\* child j moves up while tmp is less than it
Sunk(v, t, base, tmp, i, j, n) ==
    IF v[tmp] < v[t[base + j]]
    THEN SiftDown(v, [t EXCEPT ![base + i] = t[base + j]], base, tmp, j,
                  j + j, n)
    ELSE [t EXCEPT ![base + i] = tmp]

\* numpy aheapsort, its inner loop: tmp sinks from place i of the heap of n
\* elements, whose element k is t[base + k]
SiftDown(v, t, base, tmp, i, j, n) ==
    IF j > n THEN [t EXCEPT ![base + i] = tmp]
    ELSE Sunk(v, t, base, tmp, i,
              IF j < n /\ v[t[base + j]] < v[t[base + j + 1]] THEN j + 1 ELSE j,
              n)

RECURSIVE HeapifyRange(_, _, _, _, _, _)
\* the loop goes on from the array t
HeapifyResume(v, t, base, n, hi, lo) ==
    IF Len(t) >= 0 THEN HeapifyRange(v, t, base, n, hi, lo) ELSE t

\* numpy aheapsort, its first loop for l from hi down to lo
HeapifyRange(v, t, base, n, hi, lo) ==
    IF hi < lo THEN t
    ELSE IF lo = hi THEN SiftDown(v, t, base, t[base + lo], lo, lo + lo, n)
    ELSE HeapifyResume(v, HeapifyRange(v, t, base, n, hi,
                                       ((lo + hi) \div 2) + 1),
                       base, n, (lo + hi) \div 2, lo)

RECURSIVE ExtractRange(_, _, _, _, _)
\* the loop goes on from the array t
ExtractResume(v, t, base, hi, lo) ==
    IF Len(t) >= 0 THEN ExtractRange(v, t, base, hi, lo) ELSE t

\* numpy aheapsort, its second loop for n from hi down to lo: the root goes
\* to place n and the element of place n sinks from the root
ExtractRange(v, t, base, hi, lo) ==
    IF hi < lo THEN t
    ELSE IF lo = hi
    THEN SiftDown(v, [t EXCEPT ![base + lo] = t[base + 1]], base,
                  t[base + lo], 1, 2, lo - 1)
    ELSE ExtractResume(v, ExtractRange(v, t, base, hi, ((lo + hi) \div 2) + 1),
                       base, (lo + hi) \div 2, lo)

\* numpy aheapsort on the part pl..pr of t
HeapSort(v, t, pl, pr) ==
    ExtractRange(v, HeapifyRange(v, t, pl - 1, pr - pl + 1,
                                 (pr - pl + 1) \div 2, 1),
                 pl - 1, pr - pl + 1, 2)

\* after a partition: the larger part is pushed on the stack with the depth
\* left, the smaller worked on next
Pushed(s, res) ==
    IF res[2] - s.pl < s.pr - res[2]
    THEN [s EXCEPT !.t = res[1], !.pr = res[2] - 1, !.cdepth = @ - 1,
                   !.popped = FALSE,
                   !.stack = <<<<res[2] + 1, s.pr, s.cdepth - 1>>>> \o @]
    ELSE [s EXCEPT !.t = res[1], !.pl = res[2] + 1, !.cdepth = @ - 1,
                   !.popped = FALSE,
                   !.stack = <<<<s.pl, res[2] - 1, s.cdepth - 1>>>> \o @]

\* after the sort of a part: the next part off the stack
Popped(s, sorted) ==
    IF s.stack = <<>> THEN [s EXCEPT !.t = sorted, !.done = TRUE]
    ELSE [s EXCEPT !.t = sorted, !.pl = s.stack[1][1], !.pr = s.stack[1][2],
                   !.cdepth = s.stack[1][3], !.popped = TRUE,
                   !.stack = Tail(@)]

\* numpy aquicksort (argsort, kind='quicksort'), the scalar kernel, one pass
\* of its loops: heapsort for a part taken off the stack with no depth left;
\* else partition while the part has more than SMALL_QUICKSORT + 1 elements,
\* insertion sort below that
QuickSortStep(v, s) ==
    IF s.popped /\ s.cdepth < 0
    THEN Popped(s, HeapSort(v, s.t, s.pl, s.pr))
    ELSE IF s.pr - s.pl > SMALL_QUICKSORT
    THEN Pushed(s, Partition(v, s.t, s.pl, s.pr))
    ELSE Popped(s, InsertionSort(v, s.t, s.pl + 1, s.pl, s.pr))

RECURSIVE QuickSortLoop(_, _, _)
\* the loop goes on unless the stack ran empty
QuickSortResume(v, s, k) == IF s.done THEN s ELSE QuickSortLoop(v, s, k)

\* the loop, up to 2^k passes of it
QuickSortLoop(v, s, k) ==
    IF k = 0 THEN QuickSortStep(v, s)
    ELSE QuickSortResume(v, QuickSortLoop(v, s, k - 1), k - 1)

\* the scalar kernel on the values v, with cdepth = 2 * npy_get_msb(num) at
\* the start; every pass sorts a part or splits one, so there are fewer than
\* 2 * Len(v) + 1 of them
QuickSort(v) ==
    QuickSortLoop(v, [t |-> <<>> \o [i \in 1..Len(v) |-> i], pl |-> 1,
                      pr |-> Len(v), stack |-> <<>>,
                      cdepth |-> 2 * (SmallBitLen(Len(v)) - 1),
                      popped |-> TRUE, done |-> FALSE],
                  SmallBitLen(Len(v)) + 1).t

\* a vectorised kernel on the values v: ascending, equal keys in the order
\* that build leaves them in, which the model draws as the priority list
\* ties over the positions
TiedSort(v, ties) ==
    LET rank(i) == CHOOSE k \in 1..Len(ties) : ties[k] = i
        before(j, i) == v[j] < v[i] \/ (v[j] = v[i] /\ rank(j) < rank(i))
    IN [r \in 1..Len(v) |->
           CHOOSE i \in 1..Len(v) :
               Cardinality({j \in 1..Len(v) : before(j, i)}) = r - 1]

\* ndarray.argsort(kind='quicksort') of the values v: positions, ascending.
\* The kernel is chosen by the build and the CPU; kind='quicksort' promises
\* no order of equal keys.
ArgSort(v) ==
    IF Len(v) = 0 THEN <<>>
    ELSE IF build.simd THEN TiedSort(v, build.ties)
    ELSE QuickSort(v)

\* positions of the reversed array mapped back, and reversed
MappedBack(a, n) == Reverse([i \in 1..n |-> n + 1 - a[i]])

\* pandas nargsort(ascending=False): argsort of the reversed values, mapped
\* back to positions, reversed
NargsortDescending(v) == MappedBack(ArgSort(Reverse(v)), Len(v))

\* DataFrame.take: the rows of t at the positions order
Reordered(t, order) == [i \in 1..Len(order) |-> t[order[i]]]

\* sort_values(by='popularity', ascending=False), default kind
SortByPopularity(t) ==
    Reordered(t, NargsortDescending([i \in 1..Len(t) |-> t[i].popularity]))

\* head(n)
HeadN(t, n) == SubSeq(t, 1, IF Len(t) < n THEN Len(t) ELSE n)

RECURSIVE LStrip(_, _)
\* str.lstrip(chars): drop leading characters while they are in chars
LStrip(s, chars) ==
    IF s # <<>> /\ s[1] \in chars THEN LStrip(Tail(s), chars) ELSE s

\* strips the left end only
Strip_LeftOnly(s, chars) == LStrip(s, chars)

\* str.strip(chars): both ends
Strip(s, chars) == Reverse(LStrip(Reverse(LStrip(s, chars)), chars))

\* str.replace(old, ""), old one character
RemoveAll(s, old) == SelectSeq(s, LAMBDA c : c # old)

\* line 112, the lambda: x.strip("[]").replace("'", "")
CleanArtists(x) == RemoveAll(Strip(x, {"[", "]"}), "'")

\* line 111
TopSlice(t, focus) == HeadN(SortByPopularity(FocusSlice(t, focus)), TopN)

\* writes the cleaned strings through to the frames the slice came from
AssignArtists_WriteThrough(frames) ==
    LET clean(t) == [i \in 1..Len(t) |->
                        IF t[i].idx \in {frames.top_songs[k].idx :
                                            k \in 1..Len(frames.top_songs)}
                        THEN [t[i] EXCEPT !.artists = CleanArtists(@)]
                        ELSE t[i]]
    IN [frames EXCEPT !.top_songs = clean(@), !.filtered_data = clean(@),
                      !.data = clean(@)]

\* line 112: the column assignment on top_songs.  sort_values returned new
\* rows, so the frames the slice was taken from keep theirs.
AssignArtists(frames) ==
    [frames EXCEPT !.top_songs =
        [i \in 1..Len(frames.top_songs) |->
            [frames.top_songs[i] EXCEPT !.artists = CleanArtists(@)]]]

(***************************************************************************)
(* Correlation sampler, line 126.  sample(n, random_state=seed) draws with *)
(* numpy's RandomState(seed): the Mersenne Twister MT19937 seeded by       *)
(* mt19937_seed, and permutation(len)[:n], a shuffle that takes its        *)
(* indices from random_interval.  A uint32 is <<high 16 bits, low 16       *)
(* bits>>.                                                                 *)
(***************************************************************************)
RECURSIVE BitOp(_, _, _, _)
\* n bits of a and b combined bit by bit: xor when x, else and
BitOp(a, b, n, x) ==
    IF n = 0 THEN 0
    ELSE (IF x THEN (a + b) % 2 ELSE (a % 2) * (b % 2))
         + 2 * BitOp(a \div 2, b \div 2, n - 1, x)

XorByte == [a \in 0..255 |-> [b \in 0..255 |-> BitOp(a, b, 8, TRUE)]]
AndByte == [a \in 0..255 |-> [b \in 0..255 |-> BitOp(a, b, 8, FALSE)]]

Xor16(a, b) ==
    XorByte[a \div 256][b \div 256] * 256 + XorByte[a % 256][b % 256]
And16(a, b) ==
    AndByte[a \div 256][b \div 256] * 256 + AndByte[a % 256][b % 256]

Xor32(a, b) == <<Xor16(a[1], b[1]), Xor16(a[2], b[2])>>
And32(a, b) == <<And16(a[1], b[1]), And16(a[2], b[2])>>

\* a >> k
Shr32(a, k) ==
    IF k >= 16 THEN <<0, a[1] \div 2^(k - 16)>>
    ELSE <<a[1] \div 2^k, (a[2] \div 2^k) + (a[1] % 2^k) * 2^(16 - k)>>

\* a << k, the low 32 bits
Shl32(a, k) ==
    IF k >= 16 THEN <<(a[2] * 2^(k - 16)) % 65536, 0>>
    ELSE <<((a[1] * 2^k) % 65536) + (a[2] \div 2^(16 - k)),
           (a[2] * 2^k) % 65536>>

\* (a * c) mod 2^16 and floor(a * c / 2^16) for 16-bit a, c
Mul16(a, c) == ((a % 256) * c + (((a \div 256) * c) % 256) * 256) % 65536
MulHigh16(a, c) == ((a \div 256) * c + (((a % 256) * c) \div 256)) \div 256

\* (a * c + k) mod 2^32 for 0 <= k < 2^16
MulAdd32(a, c, k) ==
    <<(MulHigh16(a[2], c[2]) + Mul16(a[1], c[2]) + Mul16(a[2], c[1])
          + ((Mul16(a[2], c[2]) + k) \div 65536)) % 65536,
      (Mul16(a[2], c[2]) + k) % 65536>>

RK_STATE_LEN == 624              \* N
RK_SHIFT == 397                  \* M
Multiplier == <<27655, 35173>>   \* 1812433253
MATRIX_A == <<39176, 45279>>     \* 0x9908b0df
TemperB == <<40236, 22144>>      \* 0x9d2c5680
TemperC == <<61382, 0>>          \* 0xefc60000

RECURSIVE SeedRange(_, _, _)
\* the loop goes on from the state st
SeedResume(st, lo, hi) ==
    IF Len(st.key) >= 0 THEN SeedRange(st, lo, hi) ELSE st

\* mt19937_seed, the loop for pos from lo to hi: key[pos] = seed; seed =
\* 1812433253 * (seed ^ (seed >> 30)) + pos + 1
SeedRange(st, lo, hi) ==
    IF lo = hi
    THEN [key |-> Append(st.key, st.s),
          s |-> MulAdd32(Xor32(st.s, Shr32(st.s, 30)), Multiplier, lo + 1)]
    ELSE SeedResume(SeedRange(st, lo, (lo + hi) \div 2),
                    ((lo + hi) \div 2) + 1, hi)

\* RandomState(seed) for an integer seed below 2^31: [key, pos]
Seeded(seed) ==
    [key |-> SeedRange([key |-> <<>>,
                        s |-> <<seed \div 65536, seed % 65536>>],
                       0, RK_STATE_LEN - 1).key,
     pos |-> RK_STATE_LEN]

\* mt19937_gen, one word of the new state: key[i] from the top bit of
\* key[i], the low 31 bits of key[i1] and key[j] (positions from 0)
Twist(key, i, i1, j) ==
    LET y == <<(key[i + 1][1] \div 32768) * 32768 + (key[i1 + 1][1] % 32768),
               key[i1 + 1][2]>>
        w == Xor32(key[j + 1], Shr32(y, 1))
    IN [key EXCEPT ![i + 1] = IF y[2] % 2 = 1 THEN Xor32(w, MATRIX_A) ELSE w]

RECURSIVE TwistRange(_, _, _)
\* the loop goes on from the words key
TwistResume(key, lo, hi) ==
    IF Len(key) >= 0 THEN TwistRange(key, lo, hi) ELSE key

\* mt19937_gen, its loops over the positions lo to hi, in place
TwistRange(key, lo, hi) ==
    IF lo = hi
    THEN Twist(key, lo, (lo + 1) % RK_STATE_LEN, (lo + RK_SHIFT) % RK_STATE_LEN)
    ELSE TwistResume(TwistRange(key, lo, (lo + hi) \div 2),
                     ((lo + hi) \div 2) + 1, hi)

\* the state with its words regenerated once they are used up
Regenerated(st) ==
    IF st.pos = RK_STATE_LEN
    THEN [key |-> TwistRange(st.key, 0, RK_STATE_LEN - 1), pos |-> 0]
    ELSE st

\* mt19937_next, the tempering of a state word
Temper(y0) ==
    LET y1 == Xor32(y0, Shr32(y0, 11))
        y2 == Xor32(y1, And32(Shl32(y1, 7), TemperB))
        y3 == Xor32(y2, And32(Shl32(y2, 15), TemperC))
    IN Xor32(y3, Shr32(y3, 18))

RECURSIVE MaskOf(_)
\* random_interval: the smallest bit mask >= max
MaskOf(max) == IF max = 0 THEN 0 ELSE 2 * MaskOf(max \div 2) + 1

\* a uint32 and a mask below 2^31
Masked(w, mask) ==
    IF mask < 65536 THEN w[2] % (mask + 1)
    ELSE (w[1] % ((mask + 1) \div 65536)) * 65536 + w[2]

RECURSIVE Interval(_, _, _)
\* random_interval on a state with a word left: draw until the masked word
\* is not above max: <<state, value>>
Drawn(st, max, mask) ==
    IF Masked(Temper(st.key[st.pos + 1]), mask) <= max
    THEN <<[st EXCEPT !.pos = @ + 1],
           Masked(Temper(st.key[st.pos + 1]), mask)>>
    ELSE Interval([st EXCEPT !.pos = @ + 1], max, mask)

Interval(st, max, mask) == Drawn(Regenerated(st), max, mask)

\* shuffle, one pass of its loop: j = random_interval(i), swap arr[i] and
\* arr[j]; d is the draw
Shuffled(s, i, d) ==
    [st |-> d[1], arr |-> [s.arr EXCEPT ![i + 1] = s.arr[d[2] + 1],
                                          ![d[2] + 1] = s.arr[i + 1]]]

RECURSIVE ShuffleRange(_, _, _)
\* the loop goes on from the state s
ShuffleResume(s, hi, lo) ==
    IF s.st.pos >= 0 THEN ShuffleRange(s, hi, lo) ELSE s

\* shuffle, its loop for i from hi down to lo
ShuffleRange(s, hi, lo) ==
    IF lo = hi THEN Shuffled(s, lo, Interval(s.st, lo, MaskOf(lo)))
    ELSE ShuffleResume(ShuffleRange(s, hi, ((lo + hi) \div 2) + 1),
                       (lo + hi) \div 2, lo)

\* RandomState(seed).permutation(n): arange(n) shuffled, as positions from 1
Permutation(n, seed) ==
    IF n < 2 THEN [i \in 1..n |-> i]
    ELSE ShuffleRange([st |-> Seeded(seed),
                       arr |-> <<>> \o [i \in 1..n |-> i]], n - 1, 1).arr

\* DataFrame.take: the rows of t at the first n places of p
Take(t, p, n) == [i \in 1..n |-> t[p[i]]]

\* DataFrame.sample(n, random_state=seed), replace=False:
\* RandomState(seed).choice(len, n, replace=False) is permutation(len)[:n]
Sample(t, n, seed) == Take(t, Permutation(Len(t), seed), n)

\* samples a table of exactly the sample size too
ScatterSample_AtThreshold(t) ==
    IF Len(t) >= SampleN THEN Sample(t, SampleN, SampleSeed) ELSE t

\* line 126
ScatterSample(t) ==
    IF Len(t) > SampleN THEN Sample(t, SampleN, SampleSeed) ELSE t

(***************************************************************************)
(* One run of the script, lines 24-136.  Streamlit runs the whole script   *)
(* at start and after every widget change; an exception stops the run at   *)
(* the line that raised it.                                                *)
(***************************************************************************)
\* the stages a run can stop at, in script order
StageRank(s) ==
    CASE s = "start" -> 0
      [] s = "load" -> 1      \* line 24 raised
      [] s = "trend" -> 2     \* line 46 raised
      [] s = "radar" -> 3     \* line 84 raised
      [] s = "top" -> 4       \* lines 111-115 raised
      [] s = "render" -> 5    \* line 127 raised
      [] s = "done" -> 6

\* what a run that stopped in load_data leaves
Blank ==
    [stage |-> "load", error |-> "none", data |-> <<>>,
     selected_decades |-> {}, filtered_data |-> <<>>,
     yearly_avg_features |-> <<>>, selected_decade_radar |-> NoDecade,
     radar_values |-> <<>>, top_songs |-> <<>>, x_axis |-> "", y_axis |-> "",
     scatter_data |-> <<>>]

\* line 127, px.scatter: a column it is asked for and the frame lacks is
\* a ValueError
Rendered(s6) ==
    IF {s6.x_axis, s6.y_axis, "name"} \subseteq source.columns
    THEN [s6 EXCEPT !.stage = "done", !.error = "none"]
    ELSE s6

\* lines 114-126: the loop reads row['name'] of every top song; then the
\* axis selectboxes and the scatter sample
Listed(s5, xa, ya) ==
    IF "name" \notin source.columns /\ s5.top_songs # <<>> THEN s5
    ELSE Rendered([s5 EXCEPT !.stage = "render", !.error = "ValueError",
                             !.x_axis = xa, !.y_axis = ya,
                             !.scatter_data = ScatterSample(s5.filtered_data)])

\* line 112
Cleaned(s, xa, ya) ==
    IF "artists" \notin source.columns THEN s
    ELSE Listed(AssignArtists(s), xa, ya)

\* line 111
Ranked(s4, xa, ya) ==
    IF "popularity" \notin source.columns THEN s4
    ELSE Cleaned([s4 EXCEPT !.top_songs =
                     TopSlice(s4.filtered_data, s4.selected_decade_radar)],
                 xa, ya)

\* lines 84-87
Fingerprinted(s3, xa, ya) ==
    IF ~(Range(RadarFeatures) \subseteq source.columns) THEN s3
    ELSE Ranked([s3 EXCEPT !.stage = "top",
                           !.radar_values = MinMaxScale(DecadeFeatures(
                               s3.filtered_data, s3.selected_decade_radar))],
                xa, ya)

\* lines 78-82: a selectbox whose options changed is a new widget and takes
\* its default, the last option
FocusValue(fd, fw) ==
    IF /\ StageRank(stage) >= 3
       /\ DecadesOf(fd) = DecadesOf(filtered_data)
       /\ fw \in DecadesOf(fd)
    THEN fw
    ELSE DefaultFocus(fd)

\* lines 46-82
Trended(s2, fw, xa, ya) ==
    IF ~(Range(TrendFeatures) \subseteq source.columns) THEN s2
    ELSE Fingerprinted(
             [s2 EXCEPT !.stage = "radar",
                        !.yearly_avg_features = YearlyMeans(s2.filtered_data),
                        !.selected_decade_radar =
                            FocusValue(s2.filtered_data, fw)],
             xa, ya)

\* lines 28-34
Filtered(d, sel, fw, xa, ya) ==
    Trended([Blank EXCEPT !.stage = "trend", !.error = "KeyError",
                          !.data = d, !.selected_decades = sel,
                          !.filtered_data = FilterDecades(d, sel)],
            fw, xa, ya)

\* line 24 on
Loaded(loaded, first, ms, fw, xa, ya) ==
    IF loaded.err # "none" THEN [Blank EXCEPT !.error = loaded.err]
    ELSE Filtered(loaded.table,
                  IF first THEN DecadesOf(loaded.table) ELSE ms,
                  fw, xa, ya)

\* The run with the widget values ms (decades), fw (focus), xa, ya.  first:
\* no widget has a value yet and each takes its default (all decades, the
\* last decade, options 0 and 1 of the feature list).  The axis selectboxes
\* keep their value once they have been drawn.
ScriptRun(first, ms, fw, xa, ya) ==
    Loaded(CachedLoad(cache, source), first, ms, fw,
           IF StageRank(stage) >= 5 THEN xa ELSE feature_options[1],
           IF StageRank(stage) >= 5 THEN ya ELSE feature_options[2])

\* the state after the run; a table that load_data returned is cached
Apply(first, ms, fw, xa, ya) ==
    \E r \in {ScriptRun(first, ms, fw, xa, ya)} :
       /\ cache' = IF r.stage = "load" THEN cache
                   ELSE <<CachedLoad(cache, source).table>>
       /\ stage' = r.stage
       /\ error' = r.error
       /\ data' = r.data
       /\ selected_decades' = r.selected_decades
       /\ filtered_data' = r.filtered_data
       /\ yearly_avg_features' = r.yearly_avg_features
       /\ selected_decade_radar' = r.selected_decade_radar
       /\ radar_values' = r.radar_values
       /\ top_songs' = r.top_songs
       /\ x_axis' = r.x_axis
       /\ y_axis' = r.y_axis
       /\ scatter_data' = r.scatter_data
       /\ UNCHANGED <<source, build>>

(***************************************************************************)
(* Actions: the first run and the user's interactions.                     *)
(***************************************************************************)
\* the session opens: the first run of the script
Startup ==
    /\ stage = "start"
    /\ Apply(TRUE, {}, NoDecade, "", "")

\* the user reruns the page with no widget changed
Rerun ==
    /\ stage # "start"
    /\ Apply(FALSE, selected_decades, selected_decade_radar, x_axis, y_axis)

\* the decade multiselect (lines 28-32) changes to another subset
ChangeDecades ==
    /\ StageRank(stage) >= 2
    /\ \E ms \in SUBSET DecadesOf(data) :
          /\ ms # selected_decades
          /\ Apply(FALSE, ms, selected_decade_radar, x_axis, y_axis)

\* the focus selectbox (lines 78-82) changes to another option
ChangeFocus ==
    /\ StageRank(stage) >= 3
    /\ \E fw \in DecadesOf(filtered_data) :
          /\ fw # selected_decade_radar
          /\ Apply(FALSE, selected_decades, fw, x_axis, y_axis)

\* the X selectbox (line 124) changes
ChangeX ==
    /\ StageRank(stage) >= 5
    /\ \E xa \in Range(feature_options) :
          /\ xa # x_axis
          /\ Apply(FALSE, selected_decades, selected_decade_radar, xa, y_axis)

\* the Y selectbox (line 125) changes
ChangeY ==
    /\ StageRank(stage) >= 5
    /\ \E ya \in Range(feature_options) :
          /\ ya # y_axis
          /\ Apply(FALSE, selected_decades, selected_decade_radar, x_axis, ya)

Next == Startup \/ Rerun \/ ChangeDecades \/ ChangeFocus \/ ChangeX \/ ChangeY

(***************************************************************************)
(* Inputs.                                                                 *)
(***************************************************************************)
Str_AB == <<"[", "'", "A", "'", ",", " ", "'", "B", "'", "]">>
Str_A == <<"[", "'", "A", "'", "]">>

Track(name, artists, year, popularity, feats, loudness, tempo) ==
    [name |-> name, artists |-> artists, year |-> year,
     popularity |-> popularity, danceability |-> feats[1],
     energy |-> feats[2], valence |-> feats[3], acousticness |-> feats[4],
     speechiness |-> feats[5], loudness |-> loudness, tempo |-> tempo]

Old == Track("Old", Str_A, 1959, 50, <<300, 200, 600, 900, 40>>, -12000, 90000)
Flat == Track("Flat", Str_A, 1965, 90, <<500, 500, 500, 500, 500>>, -9000, 100000)
Beat == Track("Beat", Str_AB, 1969, 90, <<100, 900, 300, 700, 50>>, -7000, 120000)
Twin == Track("Twin", Str_A, 1969, 40, <<300, 100, 700, 500, 250>>, -8000, 95000)
Mid == Track("Mid", Str_A, 1969, 60, <<200, 500, 400, 600, 150>>, -8500, 110000)
Now == Track("Now", Str_AB, 2000, 10, <<800, 600, 400, 200, 100>>, -5000, 128000)

SeqsUpTo(S, n) == UNION {[1..k -> S] : k \in 0..n}

\* the sequences of up to n different elements of S
Rows(S, n) == {s \in SeqsUpTo(S, n) : \A i, j \in 1..Len(s) : i # j => s[i] # s[j]}

\* a file with every column
File(rows) == [status |-> "ok", columns |-> AllColumns, rows |-> rows]

\* the session before its first run
InitSession ==
    /\ cache = <<>>
    /\ stage = "start"
    /\ error = "none"
    /\ data = <<>>
    /\ selected_decades = {}
    /\ filtered_data = <<>>
    /\ yearly_avg_features = <<>>
    /\ selected_decade_radar = NoDecade
    /\ radar_values = <<>>
    /\ top_songs = <<>>
    /\ x_axis = ""
    /\ y_axis = ""
    /\ scatter_data = <<>>

\* a build of numpy whose argsort runs the scalar kernel
ScalarBuild == [simd |-> FALSE, ties |-> <<>>]

\* the builds for tables of n rows: the scalar kernel, or a vectorised one
\* with any order of equal keys
Builds(n) ==
    {ScalarBuild} \cup
    {[simd |-> TRUE, ties |-> p] :
        p \in {q \in [1..n -> 1..n] : \A i, j \in 1..n : i # j => q[i] # q[j]}}

\* The full session, axis selectors included, on small tables: a track of
\* the sixties and one of 2000, each any number of times.
Init ==
    /\ InitSession
    /\ build = ScalarBuild
    /\ \E rows \in SeqsUpTo({Flat, Now}, MaxRows) : source = File(rows)

Spec == Init /\ [][Next]_vars

\* The decade and focus interactions alone: lines 24-112 read no axis.
NextView == Startup \/ Rerun \/ ChangeDecades \/ ChangeFocus

\* the three tracks of 1969 in any order, after one of 2000 and before one
\* of 1965
YearOfThree ==
    {<<Now>> \o g \o <<Flat>> : g \in {r \in Rows({Beat, Mid, Twin}, 3) : Len(r) = 3}}

\* Tables of different tracks: one before 1960, three of the sixties (two of
\* them of one year, two of one popularity), one of 2000; and the tables
\* with a year of three tracks.
InitView ==
    /\ InitSession
    /\ build = ScalarBuild
    /\ \E rows \in Rows({Old, Flat, Beat, Twin, Now}, ViewRows) \cup YearOfThree :
          source = File(rows)

SpecView == InitView /\ [][NextView]_vars

\* Files that are missing or lack one column, with different tracks.
InitSchema ==
    /\ InitSession
    /\ build = ScalarBuild
    /\ \/ \E st \in {"missing", "unreadable"} :
             source = [status |-> st, columns |-> {}, rows |-> <<>>]
       \/ \E rows \in Rows({Flat, Now}, SchemaRows) :
          \E cols \in {AllColumns} \cup {AllColumns \ {c} : c \in AllColumns} :
             source = [status |-> "ok", columns |-> cols, rows |-> rows]

SpecSchema == InitSchema /\ [][Next]_vars

\* Artists strings: every string over the alphabet up to MaxStrLen, on a
\* track of the last decade, after a track of an earlier one.
Alphabet == {"[", "]", "'", "A", " "}

InitArtists ==
    /\ InitSession
    /\ build = ScalarBuild
    /\ \E x \in SeqsUpTo(Alphabet, MaxStrLen) :
          source = File(<<Flat, Track("Text", x, 2001, 40,
                                      <<800, 600, 400, 200, 100>>,
                                      -5000, 128000)>>)

SpecArtists == InitArtists /\ [][NextView]_vars

\* Fingerprint inputs: one or two tracks of the last decade, the first with
\* every combination of feature levels, after a track of an earlier decade.
Levels == {250 * k : k \in 0..MaxLevel}

InitFingerprint ==
    /\ InitSession
    /\ build = ScalarBuild
    /\ \E f \in [1..5 -> Levels] : \E two \in BOOLEAN :
          source = File(<<Beat, Track("Var", Str_A, 2003, 40, f, -5000, 128000)>>
                        \o IF two THEN <<Now>> ELSE <<>>)

SpecFingerprint == InitFingerprint /\ [][NextView]_vars

\* Sorting inputs.  On the scalar kernel: n tracks of one decade, all of
\* popularity 10 but at most one of popularity 90, after a track of an
\* earlier decade.  On any build: small tables with two tracks of one decade
\* and one popularity.
Hits(n, h) ==
    [i \in 1..n |-> Track("Hit", Str_A, 1990 + (i % 10),
                          IF i = h THEN 90 ELSE 10,
                          <<750, 500, 250, 125, 0>>, -5000, 128000)]

InitTop ==
    /\ InitSession
    /\ \/ /\ build = ScalarBuild
          /\ \E n \in (TopRows - 1)..TopRows : \E h \in 0..n :
                source = File(<<Flat>> \o Hits(n, h))
       \/ \E rows \in SeqsUpTo({Flat, Beat, Now}, TieRows) :
             /\ source = File(rows)
             /\ build \in Builds(Len(rows))

SpecTop == InitTop /\ [][NextView]_vars

\* Sampling inputs, on the scalar kernel: small tables, and tables of one
\* decade with n rows, n from the sample size up, in descending popularity.
BigRows(n) ==
    [i \in 1..n |-> Track("Row", Str_A, 1990 + (i % 2), 100 - (i \div 25),
                          <<500, 0, 0, 0, 0>>, -5000, 128000)]

InitScatter ==
    /\ InitSession
    /\ build = ScalarBuild
    /\ \/ \E rows \in SeqsUpTo({Flat, Beat, Twin, Now}, ScatterRows) :
             source = File(rows)
       \/ \E n \in SampleN..(SampleN + MaxExtra) :
             source = File(BigRows(n))

SpecScatter == InitScatter /\ [][NextView]_vars

(***************************************************************************)
(* Properties.                                                             *)
(***************************************************************************)
\* the columns of the file, as one record
FileColumns(r) == [c \in AllColumns |-> r[c]]

\* position of the row with index label idx in table t
PosIn(t, idx) == CHOOSE k \in 1..Len(t) : t[k].idx = idx

Labels(t) == {t[i].idx : i \in 1..Len(t)}

\* C4: every record of the working table has decade = floor(year/10)*10 (a
\* multiple of 10 with decade <= year < decade + 10) and decade >= 1960, and
\* the working table holds exactly the input records whose derived decade is
\* >= 1960, in input order, with their input values.
C4_DecadeDerivation ==
    StageRank(stage) >= 2 =>
        /\ \A i \in 1..Len(data) :
              /\ data[i].decade % 10 = 0
              /\ data[i].decade <= data[i].year
              /\ data[i].year < data[i].decade + 10
              /\ data[i].decade >= 1960
              /\ FileColumns(data[i]) = FileColumns(source.rows[data[i].idx + 1])
        /\ Labels(data) =
              {j - 1 : j \in {k \in 1..Len(source.rows) :
                  (CHOOSE m \in (source.rows[k].year - 9)..source.rows[k].year :
                       m % 10 = 0) >= 1960}}
        /\ \A i, j \in 1..Len(data) : i < j => data[i].idx < data[j].idx

C4_Witness ==
    /\ StageRank(stage) >= 2
    /\ \E k \in 1..Len(source.rows) : source.rows[k].year = 1959
    /\ \E i \in 1..Len(data) : data[i].year = 1965 /\ data[i].decade = 1960
    /\ \E i \in 1..Len(data) : data[i].year = 2000 /\ data[i].decade = 2000

\* C5: the filtered table holds exactly the records of the working table
\* whose decade is selected, in the working table's order; the empty
\* selection gives the empty table and the selection of every decade the
\* working table itself.
C5_Filter ==
    StageRank(stage) >= 2 =>
        /\ Range(filtered_data) =
              {r \in Range(data) : r.decade \in selected_decades}
        /\ \A i, j \in 1..Len(filtered_data) :
              i < j => PosIn(data, filtered_data[i].idx)
                           < PosIn(data, filtered_data[j].idx)
        /\ selected_decades = {} => filtered_data = <<>>
        /\ selected_decades = DecadesOf(data) => filtered_data = data

C5_Witness ==
    /\ StageRank(stage) >= 2
    /\ selected_decades # {}
    /\ selected_decades # DecadesOf(data)
    /\ Len(filtered_data) >= 2
    /\ \E i \in 1..Len(data) : data[i].decade \notin selected_decades
                                /\ i < Len(data)

\* every float64 of a feature value is a whole number of units of 2^-Unit
Unit == -Float64[1].e

RECURSIVE SumOfYear(_, _, _, _)
\* the exact sum, in units of 2^-Unit, of the float64 values of column col
\* over the rows 1..k of t whose year is y
SumOfYear(t, col, y, k) ==
    IF k = 0 THEN <<>>
    ELSE BigAdd(SumOfYear(t, col, y, k - 1),
                IF t[k].year = y
                THEN BigShl(Float64[t[k][col]].m, Float64[t[k][col]].e + Unit)
                ELSE <<>>)

CountOfYear(t, y) == Cardinality({i \in 1..Len(t) : t[i].year = y})

\* the float64 nearest to the quotient of the sum total by n
NearestMean(total, n) ==
    IF total = <<>> THEN Zero
    ELSE RoundQuotient(BigDivMod(BigShl(total, MantBits + 3), BigOfInt(n)),
                       0 - Unit - (MantBits + 3))

\* |a - b| for natural numbers
BigDistance(a, b) == IF BigLess(a, b) THEN BigSub(b, a) ELSE BigSub(a, b)

\* n times the float v and the sum total, both in units of 2^low, differ by
\* no more than 2^-51 of the sum
WithinRounding(v, total, n, low) ==
    ~BigLess(BigShl(total, (0 - Unit) - low),
             BigShl(BigDistance(BigShl(BigMulSmall(v.m, n), v.e - low),
                                BigShl(total, (0 - Unit) - low)),
                    MantBits - 2))

\* the float v is the quotient of the sum total by n but for rounding
NearMean(v, total, n) ==
    /\ ~v.nan
    /\ WithinRounding(v, total, n, IF v.e < 0 - Unit THEN v.e ELSE 0 - Unit)

\* the yearly means have one row per distinct year of the filtered table and
\* no other, in strictly ascending year order
YearsListed ==
    /\ {yearly_avg_features[k].year : k \in 1..Len(yearly_avg_features)}
          = YearsOf(filtered_data)
    /\ \A k \in 1..(Len(yearly_avg_features) - 1) :
          yearly_avg_features[k].year < yearly_avg_features[k + 1].year

\* C10 as stated: the yearly means have one row per distinct year of the
\* filtered table and no other, in strictly ascending year order, and each
\* value is the arithmetic mean of the feature over exactly the filtered
\* records of that year (the float64 nearest to it).
C10_ExactMeans ==
    StageRank(stage) >= 3 =>
        /\ YearsListed
        /\ \A k \in 1..Len(yearly_avg_features) :
           \A f \in Range(TrendFeatures) :
              /\ ~yearly_avg_features[k][f].neg
              /\ yearly_avg_features[k][f].abs =
                    NearestMean(SumOfYear(filtered_data, f,
                                          yearly_avg_features[k].year,
                                          Len(filtered_data)),
                                CountOfYear(filtered_data,
                                            yearly_avg_features[k].year))

\* C10: the yearly means have one row per distinct year of the filtered
\* table and no other, in strictly ascending year order, and each value is
\* a float64 that is not negative and differs from the arithmetic mean of
\* the feature over exactly the filtered records of that year by no more
\* than 2^-51 of that mean.
C10_YearlyMeans ==
    StageRank(stage) >= 3 =>
        /\ YearsListed
        /\ \A k \in 1..Len(yearly_avg_features) :
           \A f \in Range(TrendFeatures) :
              /\ ~yearly_avg_features[k][f].neg
              /\ NearMean(yearly_avg_features[k][f].abs,
                          SumOfYear(filtered_data, f,
                                    yearly_avg_features[k].year,
                                    Len(filtered_data)),
                          CountOfYear(filtered_data,
                                      yearly_avg_features[k].year))

\* two years, the later one of three records whose danceability mean is not
\* the float64 nearest to the arithmetic mean, and a year filtered out
C10_Witness ==
    /\ StageRank(stage) >= 3
    /\ Len(yearly_avg_features) = 2
    /\ yearly_avg_features[2].year = 1969
    /\ CountOfYear(filtered_data, 1969) = 3
    /\ yearly_avg_features[2].energy.abs = Float64[500]
    /\ yearly_avg_features[2].danceability.abs
          # NearestMean(SumOfYear(filtered_data, "danceability", 1969,
                                 Len(filtered_data)), 3)
    /\ \E i \in 1..Len(data) : data[i].year \notin YearsOf(filtered_data)

RECURSIVE SumOfDecade(_, _, _, _)
\* the sum of column col over the rows 1..k of t whose decade is d
SumOfDecade(t, col, d, k) ==
    IF k = 0 THEN 0
    ELSE (IF t[k].decade = d THEN t[k][col] ELSE 0)
         + SumOfDecade(t, col, d, k - 1)

\* the five feature sums of the focus decade (the means times the count)
FocusSums ==
    [k \in 1..5 |-> SumOfDecade(filtered_data, RadarFeatures[k],
                                selected_decade_radar, Len(filtered_data))]

\* C6 as stated: the fingerprint is the min-max normalisation of the five
\* feature means of the focus decade: five numbers, each in [0, 1], 0 for
\* the smallest mean and 1 for the largest; when the five means are equal
\* every value is 0.
C6_Fingerprint ==
    (StageRank(stage) >= 4 /\ selected_decade_radar # NoDecade) =>
        /\ Len(radar_values) = 5
        /\ \A k \in 1..5 :
              /\ ~radar_values[k].nan
              /\ ~FLess(radar_values[k], Zero)
              /\ ~FLess(One, radar_values[k])
              /\ FocusSums[k] = MinOf(Range(FocusSums))
                    => radar_values[k] = Zero
              /\ (FocusSums[k] = MaxOf(Range(FocusSums))
                     /\ MaxOf(Range(FocusSums)) # MinOf(Range(FocusSums)))
                    => radar_values[k] = One

\* C3 as amended: with an empty decade selection the filtered table is empty,
\* the run completes without an exception, the focus decade is None, the
\* yearly means, the top songs and the scatter sample are empty, and the
\* fingerprint is the vector of five NaN.
C3_EmptySelection ==
    /\ (StageRank(stage) >= 2 /\ selected_decades = {}) => filtered_data = <<>>
    /\ (StageRank(stage) >= 2 /\ filtered_data = <<>>) =>
          /\ stage = "done"
          /\ error = "none"
          /\ selected_decade_radar = NoDecade
          /\ yearly_avg_features = <<>>
          /\ radar_values = <<NaN, NaN, NaN, NaN, NaN>>
          /\ top_songs = <<>>
          /\ scatter_data = <<>>

C3_Witness ==
    /\ stage = "done"
    /\ selected_decades = {}
    /\ Len(data) >= 2
    /\ radar_values = <<NaN, NaN, NaN, NaN, NaN>>

\* C3 as stated: with an empty filtered table every artifact, the fingerprint
\* included, is an empty result, and no step raises.
C3_AllEmpty ==
    (StageRank(stage) >= 2 /\ filtered_data = <<>>) =>
        /\ stage = "done"
        /\ error = "none"
        /\ yearly_avg_features = <<>>
        /\ radar_values = <<>>
        /\ top_songs = <<>>
        /\ scatter_data = <<>>

\* s without its leading and trailing run of brackets
StripEnds(s) ==
    LET keep == {i \in 1..Len(s) : s[i] \notin {"[", "]"}}
    IN IF keep = {} THEN <<>> ELSE SubSeq(s, MinOf(keep), MaxOf(keep))

\* s without one leading "[" and one trailing "]"
StripOne(s) ==
    LET a == IF s # <<>> /\ s[1] = "[" THEN Tail(s) ELSE s
    IN IF a # <<>> /\ a[Len(a)] = "]" THEN SubSeq(a, 1, Len(a) - 1) ELSE a

RECURSIVE DropQuotes(_)
DropQuotes(s) ==
    IF s = <<>> THEN <<>>
    ELSE (IF s[1] = "'" THEN <<>> ELSE <<s[1]>>) \o DropQuotes(Tail(s))

\* the artists string the working table has for a top song
OriginalArtists(r) == data[PosIn(data, r.idx)].artists

\* C2 as amended: the displayed string is the artists string with every
\* leading and every trailing bracket character ("[" or "]", as many as
\* there are) removed, and then every single quote deleted; the rest is
\* kept, in order.
C2_CleanArtists ==
    stage = "done" =>
        \A i \in 1..Len(top_songs) :
            top_songs[i].artists =
                DropQuotes(StripEnds(OriginalArtists(top_songs[i])))

C2_Witness ==
    /\ stage = "done"
    /\ \E i \in 1..Len(top_songs) :
          /\ OriginalArtists(top_songs[i]) = <<"[", "[", "A">>
          /\ top_songs[i].artists = <<"A">>

\* C2 as stated: one leading "[" and one trailing "]" are removed if
\* present, then every single quote; inner brackets are kept.
C2_StripOneBracket ==
    stage = "done" =>
        \A i \in 1..Len(top_songs) :
            top_songs[i].artists =
                DropQuotes(StripOne(OriginalArtists(top_songs[i])))

\* the filtered records of the focus decade
FocusRows ==
    {r \in Range(filtered_data) : r.decade = selected_decade_radar}

\* C1 as stated: the top songs are at most 5 records of the focus decade,
\* in descending popularity, equal popularity in table order, and no omitted
\* record of the decade has a higher popularity than a returned one, or an
\* equal popularity and an earlier table position.
C1_TopSongsStable ==
    stage = "done" =>
        /\ Len(top_songs) <= 5
        /\ Labels(top_songs) \subseteq {r.idx : r \in FocusRows}
        /\ \A i, j \in 1..Len(top_songs) :
              i < j =>
                 /\ top_songs[i].popularity >= top_songs[j].popularity
                 /\ top_songs[i].popularity = top_songs[j].popularity
                       => top_songs[i].idx < top_songs[j].idx
        /\ \A r \in FocusRows : \A i \in 1..Len(top_songs) :
              r.idx \notin Labels(top_songs) =>
                 /\ r.popularity <= top_songs[i].popularity
                 /\ ~(r.popularity = top_songs[i].popularity
                      /\ r.idx < top_songs[i].idx)

\* C7, in every state: a filtered table of more than 2000 records gives
\* exactly 2000 records, each a record of the filtered table, no record
\* twice; one of 2000 records or fewer gives the filtered table itself.
C7_SampleShape ==
    stage = "done" =>
        IF Len(filtered_data) > 2000
        THEN /\ Len(scatter_data) = 2000
             /\ Range(scatter_data) \subseteq Range(filtered_data)
             /\ Cardinality(Labels(scatter_data)) = 2000
        ELSE scatter_data = filtered_data

\* C7: the shape above, and a second evaluation on the same filtered table
\* returns the same rows.
C7_ScatterSample ==
    /\ []C7_SampleShape
    /\ [][(stage = "done" /\ filtered_data' = filtered_data)
              => scatter_data' = scatter_data]_vars

C7_Witness ==
    /\ stage = "done"
    /\ Len(filtered_data) = 2002
    /\ Len(scatter_data) = 2000
    /\ Labels(filtered_data) \ Labels(scatter_data) = {1126, 1459}

\* nothing of the view pipeline has been computed
NothingComputed ==
    /\ cache = <<>>
    /\ data = <<>> /\ filtered_data = <<>>
    /\ yearly_avg_features = <<>> /\ radar_values = <<>>
    /\ top_songs = <<>> /\ scatter_data = <<>>

\* C8 as amended: load fails with FileNotFoundError (PermissionError) when
\* the file is missing (unreadable) and with KeyError when the year column
\* is absent, each before any aggregate is computed; with the year column
\* present load succeeds, and the absence of another column raises only at
\* the first line of the view pipeline that reads it, after the aggregates
\* of the earlier lines were computed.
C8_LoadErrors ==
    stage # "start" =>
        /\ source.status = "missing" =>
              stage = "load" /\ error = "FileNotFoundError" /\ NothingComputed
        /\ source.status = "unreadable" =>
              stage = "load" /\ error = "PermissionError" /\ NothingComputed
        /\ (source.status = "ok" /\ "year" \notin source.columns) =>
              stage = "load" /\ error = "KeyError" /\ NothingComputed
        /\ (source.status = "ok" /\ "year" \in source.columns) =>
              /\ stage # "load"
              /\ cache = <<data>>
              /\ \A c \in AllColumns \ source.columns :
                    /\ c \in Range(TrendFeatures) =>
                          /\ stage = "trend" /\ error = "KeyError"
                          /\ yearly_avg_features = <<>>
                    /\ c = "speechiness" =>
                          /\ stage = "radar" /\ error = "KeyError"
                          /\ Len(yearly_avg_features)
                                = Cardinality(YearsOf(filtered_data))
                          /\ radar_values = <<>>
                    /\ c \in {"popularity", "artists"} =>
                          /\ stage = "top" /\ error = "KeyError"
                          /\ Len(radar_values) = 5
                          /\ scatter_data = <<>>
                    /\ c = "name" =>
                          /\ Len(radar_values) = 5
                          /\ IF top_songs # <<>>
                             THEN stage = "top" /\ error = "KeyError"
                             ELSE stage = "render" /\ error = "ValueError"
                    /\ c \in {"loudness", "tempo"} =>
                          /\ scatter_data = filtered_data
                          /\ IF c \in {x_axis, y_axis}
                             THEN stage = "render" /\ error = "ValueError"
                             ELSE stage = "done" /\ error = "none"
              /\ source.columns = AllColumns => stage = "done" /\ error = "none"

C8_Witness ==
    /\ stage = "radar"
    /\ error = "KeyError"
    /\ "speechiness" \notin source.columns
    /\ Len(yearly_avg_features) = 2

\* C8 as stated: a file that is missing, unreadable or lacks a required
\* column makes load fail, before any aggregate is computed.
C8_FailsInLoad ==
    (stage # "start"
        /\ (source.status # "ok" \/ source.columns # AllColumns)) =>
        stage = "load" /\ error # "none" /\ NothingComputed

\* C9, in every state: the cached table and the working table are the table
\* load_data made of the file, and the filtered table is its selection.
C9_TableIntact ==
    StageRank(stage) >= 2 =>
        /\ cache = <<load_data(source).table>>
        /\ data = load_data(source).table
        /\ Range(filtered_data) =
              {r \in Range(load_data(source).table) :
                  r.decade \in selected_decades}

\* C9: the tables stay as loaded through every interaction, and a run that
\* changes neither the decade selection nor the focus decade returns the
\* same four artifacts.
C9_ReadOnlyTable ==
    /\ []C9_TableIntact
    /\ [][/\ cache # <<>> => cache' = cache
          /\ (stage = "done" /\ selected_decades' = selected_decades
                 /\ selected_decade_radar' = selected_decade_radar) =>
                /\ yearly_avg_features' = yearly_avg_features
                /\ radar_values' = radar_values
                /\ top_songs' = top_songs
                /\ scatter_data' = scatter_data]_vars

C9_Witness ==
    /\ stage = "done"
    /\ x_axis = "tempo" /\ y_axis = "popularity"
    /\ selected_decades # DecadesOf(data) /\ selected_decades # {}
    /\ \E i \in 1..Len(top_songs) :
          /\ top_songs[i].artists = <<"A">>
          /\ OriginalArtists(top_songs[i]) = Str_A

====
